---- MODULE Spec2Model ----
(***************************************************************************)
(* cpuid_dump: the leaf/sub-leaf plan (leaf_pool), one sweep of it         *)
(* (MainOpt::rawcpuid_pool), and the all-threads coordinator               *)
(* (MainOpt::pool_all_thread) with the output sink chosen by MainOpt::run. *)
(*                                                                         *)
(* A u32 leaf number is kept as <<hi, lo>>: hi is bit 31 and lo the low 31 *)
(* bits, so 0x8000_001D is <<1, 29>> and 0x1F is <<0, 31>>.  The order of  *)
(* u32 is the lexicographic order of the pairs.                            *)
(***************************************************************************)
EXTENDS Integers, Sequences, FiniteSets, TLC

\* ---------------------------------------------------------------- bounds
\* logical processors of the machine: identifiers 0..MaxCpus-1
MaxCpus == 3
\* largest max_std_leaf (CPUID[0].EAX) the plan is built for
MaxStdLeaf == 32
\* largest leaf_07h_subc (CPUID[7,0].EAX) the plan is built for
MaxSubc == 2
\* largest low part of max_ext_leaf: 0x8000_0000 + MaxExtOff
MaxExtOff == 33

\* ------------------------------------------------------------ u32 leaves
Leaf(hi, lo) == <<hi, lo>>

LeafLe(a, b) == a[1] < b[1] \/ (a[1] = b[1] /\ a[2] <= b[2])

LeafLt(a, b) == LeafLe(a, b) /\ a # b

\* ------------------------------------------------------------- leaf_pool
\* what `for sub_leaf in lo..=hi { leaf_pool.push((leaf, sub_leaf)) }` pushes
PushSubLeafs(leaf, lo, hi) ==
    [n \in 1..(hi - lo + 1) |-> <<leaf, lo + n - 1>>]

\* the 0xD arm with an inclusive range, 0x0..=0xF
StdArmInclusiveD(leaf, leaf_07h_subc) ==
    IF leaf = Leaf(0, 4) THEN PushSubLeafs(leaf, 0, 4)
    ELSE IF leaf = Leaf(0, 7) THEN PushSubLeafs(leaf, 0, leaf_07h_subc)
    ELSE IF leaf = Leaf(0, 11) THEN PushSubLeafs(leaf, 0, 1)
    ELSE IF leaf = Leaf(0, 13) THEN PushSubLeafs(leaf, 0, 15)
    ELSE <<<<leaf, 0>>>>

\* what the match of the standard loop pushes for leaf; 0x0..0xF excludes
\* its end
StdArm(leaf, leaf_07h_subc) ==
    IF leaf = Leaf(0, 4) THEN PushSubLeafs(leaf, 0, 4)
    ELSE IF leaf = Leaf(0, 7) THEN PushSubLeafs(leaf, 0, leaf_07h_subc)
    ELSE IF leaf = Leaf(0, 11) THEN PushSubLeafs(leaf, 0, 1)
    ELSE IF leaf = Leaf(0, 13) THEN PushSubLeafs(leaf, 0, 15 - 1)
    ELSE <<<<leaf, 0>>>>

\* what the match of the extended loop pushes for leaf
ExtArm(leaf) ==
    IF leaf = Leaf(1, 29) THEN PushSubLeafs(leaf, 0, 4)
    ELSE IF leaf = Leaf(1, 32) THEN PushSubLeafs(leaf, 0, 1)
    ELSE <<<<leaf, 0>>>>

\* the pushes of the standard loop for the leaves <<hi, lo>> ..= <<hi, up>>,
\* in ascending order (the range is halved to keep the evaluation shallow)
RECURSIVE StdRange(_, _, _, _)
StdRange(hi, lo, up, leaf_07h_subc) ==
    IF lo > up THEN <<>>
    ELSE IF lo = up THEN StdArm(Leaf(hi, lo), leaf_07h_subc)
    ELSE LET mid == lo + ((up - lo) \div 2)
         IN  StdRange(hi, lo, mid, leaf_07h_subc)
                \o StdRange(hi, mid + 1, up, leaf_07h_subc)

\* the same for the extended loop
RECURSIVE ExtRange(_, _, _)
ExtRange(hi, lo, up) ==
    IF lo > up THEN <<>>
    ELSE IF lo = up THEN ExtArm(Leaf(hi, lo))
    ELSE LET mid == lo + ((up - lo) \div 2)
         IN  ExtRange(hi, lo, mid) \o ExtRange(hi, mid + 1, up)

\* for leaf in 0x0..=max_std_leaf { match leaf { ... } }
StdLoop(max_std_leaf, leaf_07h_subc) ==
    IF max_std_leaf[1] = 0 THEN StdRange(0, 0, max_std_leaf[2], leaf_07h_subc)
    ELSE StdRange(0, 0, 2147483647, leaf_07h_subc)
            \o StdRange(1, 0, max_std_leaf[2], leaf_07h_subc)

\* an extended loop whose body runs once before its bound is looked at
ExtLoopAtLeastOnce(max_ext_leaf) ==
    IF max_ext_leaf[1] = 0 THEN ExtArm(Leaf(1, 0))
    ELSE ExtRange(1, 0, max_ext_leaf[2])

\* for leaf in 0x8000_0000..=max_ext_leaf { match leaf { ... } }: empty when
\* max_ext_leaf is below 0x8000_0000
ExtLoop(max_ext_leaf) ==
    IF max_ext_leaf[1] = 0 THEN <<>>
    ELSE ExtRange(1, 0, max_ext_leaf[2])

\* leaf_pool() given the EAX of its three discovery probes
LeafPoolOf(max_std_leaf, leaf_07h_subc, max_ext_leaf) ==
    StdLoop(max_std_leaf, leaf_07h_subc)
        \o PushSubLeafs(Leaf(0, 31), 0, 4)
        \o ExtLoop(max_ext_leaf)

\* the discovery values the plan is built for
StdLeafInputs == {Leaf(0, n) : n \in 0..MaxStdLeaf}

SubcInputs == 0..MaxSubc

ExtLeafInputs == {Leaf(0, 0), Leaf(0, 2147483647)} \cup {Leaf(1, n) : n \in 0..MaxExtOff}

\* ------------------------------------------------------- RawCpuid, sweep
ZeroRegs == <<0, 0, 0, 0>>

DefaultRegs == <<1, 0, 0, 0>>

\* the <<eax, ebx, ecx, edx>> a probe answers with
RegVals == {ZeroRegs, DefaultRegs, <<1, 0, 0, 1>>}

\* RawCpuid::exe(leaf, sub_leaf), regs being what the instruction returned
RawCpuidExe(leaf, sub_leaf, regs) ==
    [leaf |-> leaf, sub_leaf |-> sub_leaf, result |-> regs]

\* RawCpuid::check_result_zero
CheckResultZero(cpuid) ==
    /\ cpuid.result[1] = 0 /\ cpuid.result[2] = 0
    /\ cpuid.result[3] = 0 /\ cpuid.result[4] = 0

\* RawCpuid's != as used by the diff
RawCpuidNe(a, b) ==
    \/ a.result[1] # b.result[1] \/ a.result[2] # b.result[2]
    \/ a.result[3] # b.result[3] \/ a.result[4] # b.result[4]

\* what the probes of one sweep of plan may answer, query by query: the
\* first query any of RegVals, the second zeros or not, the others the same
\* on every processor
Sweeps(plan) ==
    {[i \in 1..Len(plan) |-> IF i = 1 THEN v ELSE IF i = 2 THEN w ELSE DefaultRegs] :
        v \in RegVals, w \in {ZeroRegs, DefaultRegs}}

\* rawcpuid_pool keeping every result, zero or not
RECURSIVE RawcpuidPoolKeepZero(_, _, _, _, _)
RawcpuidPoolKeepZero(skip_zero, plan, regs, i, cpuid_pool) ==
    IF i > Len(plan) THEN cpuid_pool
    ELSE RawcpuidPoolKeepZero(skip_zero, plan, regs, i + 1,
            Append(cpuid_pool, RawCpuidExe(plan[i][1], plan[i][2], regs[i])))

\* the loop of rawcpuid_pool from query i on; regs[i] answers plan[i]
RECURSIVE RawcpuidPoolFrom(_, _, _, _, _)
RawcpuidPoolFrom(skip_zero, plan, regs, i, cpuid_pool) ==
    IF i > Len(plan) THEN cpuid_pool
    ELSE LET cpuid == RawCpuidExe(plan[i][1], plan[i][2], regs[i])
         IN  IF skip_zero /\ CheckResultZero(cpuid)
             THEN RawcpuidPoolFrom(skip_zero, plan, regs, i + 1, cpuid_pool)
             ELSE RawcpuidPoolFrom(skip_zero, plan, regs, i + 1,
                                   Append(cpuid_pool, cpuid))

\* MainOpt::rawcpuid_pool
RawcpuidPool(skip_zero, plan, regs) ==
    RawcpuidPoolFrom(skip_zero, plan, regs, 1, <<>>)

\* sub_pool.retain(..) keeping the entries equal to the baseline's
RECURSIVE RetainEqual(_, _, _, _)
RetainEqual(sub_pool, first, i, kept) ==
    IF i > Len(sub_pool) THEN [ok |-> TRUE, pool |-> kept]
    ELSE IF i > Len(first) THEN [ok |-> FALSE, pool |-> <<>>]
    ELSE RetainEqual(sub_pool, first, i + 1,
            IF RawCpuidNe(first[i], sub_pool[i]) THEN kept
            ELSE Append(kept, sub_pool[i]))

\* sub_pool.retain(|sub| first_pool.next().unwrap() != sub): retain visits the
\* entries in order, once each, so the i-th call takes the iterator's i-th
\* item; next() past the end is None and unwrap() panics (ok = FALSE)
RECURSIVE Retain(_, _, _, _)
Retain(sub_pool, first, i, kept) ==
    IF i > Len(sub_pool) THEN [ok |-> TRUE, pool |-> kept]
    ELSE IF i > Len(first) THEN [ok |-> FALSE, pool |-> <<>>]
    ELSE Retain(sub_pool, first, i + 1,
            IF RawCpuidNe(first[i], sub_pool[i]) THEN Append(kept, sub_pool[i])
            ELSE kept)

\* the block `let diff = { .. }` of a task
DiffOf(diff, sub_pool, first) ==
    IF diff THEN Retain(sub_pool, first, 1, <<>>)
    ELSE [ok |-> TRUE, pool |-> sub_pool]

\* ------------------------------------------------------------- rendering
\* the output buffer is a sequence of rendered pieces: the topology header
\* of a thread (taken on the processor `on` the thread runs on), the column
\* header, and one piece per RawCpuid
ThreadIdHead(thread_id, on) ==
    <<[kind |-> "thread_id_head", thread_id |-> thread_id, on |-> on]>>

HeadFmt == <<[kind |-> "head_fmt"]>>

SelectPool(rawcpuid_pool) ==
    [i \in 1..Len(rawcpuid_pool) |-> [kind |-> "entry", raw |-> rawcpuid_pool[i]]]

\* --------------------------------------------------------- processor set
RECURSIVE Ascending(_)
Ascending(S) ==
    IF S = {} THEN <<>>
    ELSE LET m == CHOOSE x \in S : \A y \in S : x <= y
         IN  <<m>> \o Ascending(S \ {m})

\* cpu_set_list(): the processors of the affinity mask, ascending
CpuSetLists == {Ascending(S) : S \in (SUBSET (0..(MaxCpus - 1))) \ {{}}}

\* the discovery values of the machine the coordinator runs on
CoordDiscovery ==
    {<<Leaf(0, 0), 0, Leaf(0, 0)>>, <<Leaf(0, 1), 0, Leaf(1, 0)>>}

VARIABLES
    disc,        \* EAX of the three discovery probes: <<max_std, subc, max_ext>>
    leaf_pool,   \* <<>> before leaf_pool() returned, <<plan>> after
    plan_builds, \* calls of leaf_pool() so far
    opt,         \* MainOpt: skip_zero, diff, save_path (TRUE for Some(path))
    cpu_list,    \* cpu_set_list()
    pc,          \* where the main thread is
    scoped,      \* the scoped thread of the baseline sweep
    first_pool,  \* <<>> before the baseline is published, <<sample>> after
    main_pool,   \* the output buffer being assembled
    handles,     \* JoinHandles not joined yet, as positions in cpu_list
    task,        \* the spawned threads, by position in cpu_list
    affinity,    \* thread -> {} or {the processor it is bound to}
    swept,       \* thread -> <<>> or <<its sweep: plan, answers, sample>>
    overtaken,   \* TRUE once a task ended before one spawned earlier
    stdout,      \* what was written to standard output
    file,        \* <<>> while no file exists, <<contents>> once created
    arg,         \* the argument of the pure function being applied, if any
    ret          \* <<>> before that function returned, <<its result>> after

vars == <<disc, leaf_pool, plan_builds, opt, cpu_list, pc, scoped, first_pool,
          main_pool, handles, task, affinity, swept, overtaken, stdout, file,
          arg, ret>>

coordvars == <<opt, cpu_list, pc, scoped, first_pool, main_pool, handles, task,
               affinity, swept, overtaken, stdout, file>>

\* thread 0 is the main thread, thread 1 the scoped thread that sweeps
\* cpu_list[1], thread i >= 2 the thread spawned for cpu_list[i]
Threads == 0..MaxCpus

TaskIds == 2..MaxCpus

IdleThread == [st |-> "idle", why |-> "", out |-> <<>>]

\* ------------------------------------------------ the plan builder alone
PlanInit ==
    /\ disc \in StdLeafInputs \X SubcInputs \X ExtLeafInputs
    /\ leaf_pool = <<>>
    /\ plan_builds = 0
    /\ opt = [skip_zero |-> TRUE, diff |-> TRUE, save_path |-> FALSE]
    /\ cpu_list = <<0>>
    /\ pc = "leaf_pool"
    /\ scoped = IdleThread
    /\ first_pool = <<>>
    /\ main_pool = <<>>
    /\ handles = <<>>
    /\ task = [i \in TaskIds |-> IdleThread]
    /\ affinity = [t \in Threads |-> {}]
    /\ swept = [t \in Threads |-> <<>>]
    /\ overtaken = FALSE
    /\ stdout = <<>>
    /\ file = <<>>
    /\ arg = <<>>
    /\ ret = <<>>

BuildPlan ==
    /\ pc = "leaf_pool"
    /\ leaf_pool = <<>>
    /\ leaf_pool' = <<LeafPoolOf(disc[1], disc[2], disc[3])>>
    /\ plan_builds' = plan_builds + 1
    /\ UNCHANGED <<arg, ret, disc, coordvars>>

PlanNext == BuildPlan

SpecPlan == PlanInit /\ [][PlanNext]_vars

\* ------------------------------------------------------- the coordinator
Init ==
    /\ disc \in CoordDiscovery
    /\ leaf_pool = <<>>
    /\ plan_builds = 0
    /\ opt \in [skip_zero : BOOLEAN, diff : BOOLEAN, save_path : BOOLEAN]
    /\ cpu_list \in CpuSetLists
    /\ pc = "run"
    /\ scoped = IdleThread
    /\ first_pool = <<>>
    /\ main_pool = <<>>
    /\ handles = <<>>
    /\ task = [i \in TaskIds |-> IdleThread]
    /\ affinity = [t \in Threads |-> {}]
    /\ swept = [t \in Threads |-> <<>>]
    /\ overtaken = FALSE
    /\ stdout = <<>>
    /\ file = <<>>
    /\ arg = <<>>
    /\ ret = <<>>

\* run -> save_file | dump_write(..) -> dump_pool -> pool_all_thread, up to
\* the scope: the options are shared, the plan is built
Start ==
    /\ pc = "run"
    /\ leaf_pool' = <<LeafPoolOf(disc[1], disc[2], disc[3])>>
    /\ plan_builds' = plan_builds + 1
    /\ pc' = "scope"
    /\ UNCHANGED <<arg, ret, disc, opt, cpu_list, scoped, first_pool, main_pool, handles,
                   task, affinity, swept, overtaken, stdout, file>>

\* thread::scope(|s| s.spawn(..)): the main thread waits in join()
ScopeSpawn ==
    /\ pc = "scope"
    /\ scoped' = [scoped EXCEPT !.st = "running"]
    /\ pc' = "scope_join"
    /\ UNCHANGED <<arg, ret, disc, leaf_pool, plan_builds, opt, cpu_list, first_pool,
                   main_pool, handles, task, affinity, swept, overtaken, stdout, file>>

\* the closure of the scope, run by thread t: pin_thread(cpu_list[0]).unwrap(),
\* thread_id_head, rawcpuid_pool
BaselineBody(t) ==
    /\ scoped.st = "running"
    /\ LET cpu == cpu_list[1] IN
       \/ /\ scoped' = [scoped EXCEPT !.st = "panicked", !.why = "pin_thread"]
          /\ UNCHANGED <<affinity, swept>>
       \/ \E regs \in Sweeps(leaf_pool[1]) :
            LET pool == RawcpuidPool(opt.skip_zero, leaf_pool[1], regs) IN
            /\ affinity' = [affinity EXCEPT ![t] = {cpu}]
            /\ swept' = [swept EXCEPT ![t] =
                    <<[plan |-> leaf_pool[1], regs |-> regs, pool |-> pool]>>]
            /\ scoped' = [st |-> "finished", why |-> "",
                          out |-> <<pool, ThreadIdHead(cpu, cpu)>>]
    /\ UNCHANGED <<arg, ret, disc, leaf_pool, plan_builds, opt, cpu_list, pc, first_pool,
                   main_pool, handles, task, overtaken, stdout, file>>

\* the baseline closure run by the calling thread
BaselineOnCaller == BaselineBody(0)

ScopedRun == BaselineBody(1)

\* .join().unwrap() of the scope, then the three main_pool.extend(..)
ScopeJoin ==
    /\ pc = "scope_join"
    /\ scoped.st \in {"finished", "panicked"}
    /\ IF scoped.st = "panicked"
       THEN /\ pc' = "panicked"
            /\ UNCHANGED <<first_pool, main_pool>>
       ELSE /\ first_pool' = <<scoped.out[1]>>
            /\ main_pool' = main_pool \o scoped.out[2] \o HeadFmt
                                \o SelectPool(scoped.out[1])
            /\ pc' = IF Len(cpu_list) > 1 THEN "spawn" ELSE "returned"
    /\ UNCHANGED <<arg, ret, disc, leaf_pool, plan_builds, opt, cpu_list, scoped, handles,
                   task, affinity, swept, overtaken, stdout, file>>

\* spawning the tasks while the scope is still being waited for
SpawnAtEarly == {"scope_join", "spawn"}

\* where the main thread spawns the tasks: after the scope
SpawnAt == {"spawn"}

\* one turn of `for cpu in &cpu_list[1..]`: handles.push(thread::spawn(..))
SpawnTask ==
    /\ pc \in SpawnAt
    /\ LET i == Len(handles) + 2 IN
       /\ i <= Len(cpu_list)
       /\ task' = [task EXCEPT ![i] = [st |-> "running", why |-> "", out |-> <<>>]]
       /\ handles' = Append(handles, i)
       /\ pc' = IF pc = "spawn" /\ i = Len(cpu_list) THEN "join" ELSE pc
    /\ UNCHANGED <<arg, ret, disc, leaf_pool, plan_builds, opt, cpu_list, scoped,
                   first_pool, main_pool, affinity, swept, overtaken, stdout, file>>

\* the closure of thread i sweeping plan: pin_thread(cpu).unwrap(),
\* rawcpuid_pool, the diff, thread_id_head, select_pool
TaskBody(i, plan, builds) ==
    /\ task[i].st = "running"
    /\ pc \notin {"panicked", "done"}
    /\ plan_builds' = builds
    /\ overtaken' = (overtaken \/ \E j \in 2..(i - 1) : task[j].st = "running")
    /\ LET cpu == cpu_list[i] IN
       \/ /\ task' = [task EXCEPT ![i] =
                    [st |-> "panicked", why |-> "pin_thread", out |-> <<>>]]
          /\ UNCHANGED <<affinity, swept>>
       \/ \E regs \in Sweeps(plan) :
            LET sub_pool == RawcpuidPool(opt.skip_zero, plan, regs)
                diff == DiffOf(opt.diff, sub_pool, first_pool[1])
            IN
            /\ affinity' = [affinity EXCEPT ![i] = {cpu}]
            /\ swept' = [swept EXCEPT ![i] =
                    <<[plan |-> plan, regs |-> regs, pool |-> sub_pool]>>]
            /\ task' = [task EXCEPT ![i] =
                    IF diff.ok
                    THEN [st |-> "finished", why |-> "",
                          out |-> ThreadIdHead(cpu, cpu) \o SelectPool(diff.pool)]
                    ELSE [st |-> "panicked", why |-> "unwrap_none", out |-> <<>>]]
    /\ UNCHANGED <<arg, ret, disc, leaf_pool, opt, cpu_list, pc, scoped, first_pool,
                   main_pool, handles, stdout, file>>

\* a task that builds a plan of its own instead of sharing the Arc
TaskRunOwnPlan(i) ==
    \E d \in CoordDiscovery :
        TaskBody(i, LeafPoolOf(d[1], d[2], d[3]), plan_builds + 1)

TaskRun(i) == TaskBody(i, leaf_pool[1], plan_builds)

\* joining whichever handle is ready
NextHandleAny(hs) == 1..Len(hs)

\* the handle `for h in handles` joins next: the first one
NextHandle(hs) == {1}

\* a join that takes a panicked thread's empty result
JoinIgnorePanic(t) == TRUE

\* h.join() of a panicked thread is Err, and unwrap() panics
JoinUnwrap(t) == t.st # "panicked"

\* one turn of `for h in handles`: h.join().unwrap(), main_pool.extend(v)
JoinTask ==
    /\ pc = "join"
    /\ \E k \in NextHandle(handles) :
        LET h == handles[k] IN
        /\ task[h].st \in {"finished", "panicked"}
        /\ IF JoinUnwrap(task[h])
           THEN /\ main_pool' = main_pool \o task[h].out
                /\ task' = [task EXCEPT ![h].st = "joined"]
                /\ handles' = SubSeq(handles, 1, k - 1)
                                \o SubSeq(handles, k + 1, Len(handles))
                /\ pc' = IF Len(handles) = 1 THEN "returned" ELSE "join"
           ELSE /\ pc' = "panicked"
                /\ UNCHANGED <<main_pool, task, handles>>
    /\ UNCHANGED <<arg, ret, disc, leaf_pool, plan_builds, opt, cpu_list, scoped,
                   first_pool, affinity, swept, overtaken, stdout, file>>

\* save_file after dump_pool returned: File::create(path)?, write_all,
\* println!; an io error comes back to main's unwrap()
SaveFile ==
    /\ pc = "returned"
    /\ opt.save_path
    /\ \/ /\ pc' = "panicked"
          /\ UNCHANGED <<stdout, file>>
       \/ /\ file' = <<main_pool>>
          /\ stdout' = stdout \o <<[kind |-> "output_to"]>>
          /\ pc' = "done"
    /\ UNCHANGED <<arg, ret, disc, leaf_pool, plan_builds, opt, cpu_list, scoped,
                   first_pool, main_pool, handles, task, affinity, swept,
                   overtaken>>

\* dump_write(&self.dump_pool()) after dump_pool returned
DumpWrite ==
    /\ pc = "returned"
    /\ ~opt.save_path
    /\ \/ /\ pc' = "panicked"
          /\ UNCHANGED stdout
       \/ /\ stdout' = stdout \o main_pool
          /\ pc' = "done"
    /\ UNCHANGED <<arg, ret, disc, leaf_pool, plan_builds, opt, cpu_list, scoped,
                   first_pool, main_pool, handles, task, affinity, swept,
                   overtaken, file>>

MainStep ==
    \/ Start
    \/ ScopeSpawn
    \/ ScopeJoin
    \/ SpawnTask
    \/ JoinTask
    \/ SaveFile
    \/ DumpWrite

Next ==
    \/ MainStep
    \/ ScopedRun
    \/ \E i \in TaskIds : TaskRun(i)

Spec == Init /\ [][Next]_vars

\* every thread that can take a step eventually takes it
SpecFair ==
    /\ Spec
    /\ WF_vars(MainStep)
    /\ WF_vars(ScopedRun)
    /\ \A i \in TaskIds : WF_vars(TaskRun(i))

\* -------------------------------------------------- pure functions alone
\* the variables of the run, which no pure function touches
runvars == <<disc, leaf_pool, plan_builds, opt, cpu_list, scoped, first_pool,
             main_pool, handles, task, affinity, swept, overtaken, stdout, file>>

\* no run is in progress
NoRun ==
    /\ disc = <<Leaf(0, 0), 0, Leaf(0, 0)>>
    /\ leaf_pool = <<>>
    /\ plan_builds = 0
    /\ opt = [skip_zero |-> TRUE, diff |-> TRUE, save_path |-> FALSE]
    /\ cpu_list = <<0>>
    /\ scoped = IdleThread
    /\ first_pool = <<>>
    /\ main_pool = <<>>
    /\ handles = <<>>
    /\ task = [i \in TaskIds |-> IdleThread]
    /\ affinity = [t \in Threads |-> {}]
    /\ swept = [t \in Threads |-> <<>>]
    /\ overtaken = FALSE
    /\ stdout = <<>>
    /\ file = <<>>

\* -------------------------------------------------------- align_mold_ftr
\* most tokens of one entry
MaxTokens == 3
\* length of the longest token
MaxTokenLen == 40

TOTAL_WIDTH == 100

INPUT_WIDTH == Len("  0x00000000 0x0:  ")

OUTPUT_WIDTH == Len("0x00000000 ") * 4

PARSE_WIDTH == TOTAL_WIDTH - INPUT_WIDTH - OUTPUT_WIDTH - 1

DECO_LEN == Len(" []")

\* s.repeat(n)
RECURSIVE Repeat(_, _)
Repeat(s, n) ==
    IF n = 0 THEN ""
    ELSE IF n = 1 THEN s
    ELSE LET h == Repeat(s, n \div 2)
         IN  h \o h \o (IF n % 2 = 1 THEN s ELSE "")

\* pad!()
Pad == Repeat(" ", INPUT_WIDTH + OUTPUT_WIDTH + 1)

\* padln!()
Padln == "\n" \o Pad

\* format!(" [{}]", v)
Bracketed(v) == " [" \o v \o "]"

\* a loop body that keeps a token inline only when it leaves room
AlignStepStrict(st, v) ==
    LET len == Len(v) + DECO_LEN IN
    IF len < st.rest
    THEN [rest |-> st.rest - len, mold |-> Append(st.mold, Bracketed(v))]
    ELSE IF PARSE_WIDTH < len
    THEN [rest |-> 0, mold |-> Append(st.mold, Padln \o Bracketed(v))]
    ELSE [rest |-> PARSE_WIDTH - len,
          mold |-> Append(st.mold, Padln \o Bracketed(v))]

\* a loop body that gives the whole budget back after an oversized token
AlignStepNoClamp(st, v) ==
    LET len == Len(v) + DECO_LEN IN
    IF len <= st.rest
    THEN [rest |-> st.rest - len, mold |-> Append(st.mold, Bracketed(v))]
    ELSE IF PARSE_WIDTH < len
    THEN [rest |-> PARSE_WIDTH, mold |-> Append(st.mold, Padln \o Bracketed(v))]
    ELSE [rest |-> PARSE_WIDTH - len,
          mold |-> Append(st.mold, Padln \o Bracketed(v))]

\* a loop body that forgets the wrapped token when it resets the width
AlignStepFullReset(st, v) ==
    LET len == Len(v) + DECO_LEN IN
    IF len <= st.rest
    THEN [rest |-> st.rest - len, mold |-> Append(st.mold, Bracketed(v))]
    ELSE IF PARSE_WIDTH < len
    THEN [rest |-> 0, mold |-> Append(st.mold, Padln \o Bracketed(v))]
    ELSE [rest |-> PARSE_WIDTH,
          mold |-> Append(st.mold, Padln \o Bracketed(v))]

\* one turn of `for v in buff`: st.rest is rest, st.mold the strings pushed
\* onto mold so far, in order
AlignStep(st, v) ==
    LET len == Len(v) + DECO_LEN IN
    IF len <= st.rest
    THEN [rest |-> st.rest - len, mold |-> Append(st.mold, Bracketed(v))]
    ELSE IF PARSE_WIDTH < len
    THEN [rest |-> 0, mold |-> Append(st.mold, Padln \o Bracketed(v))]
    ELSE [rest |-> PARSE_WIDTH - len,
          mold |-> Append(st.mold, Padln \o Bracketed(v))]

RECURSIVE AlignFrom(_, _, _)
AlignFrom(buff, k, st) ==
    IF k > Len(buff) THEN st
    ELSE AlignFrom(buff, k + 1, AlignStep(st, buff[k]))

\* align_mold_ftr(buff): the strings pushed onto mold, in order; the String
\* returned is their concatenation
AlignMoldFtr(buff) ==
    AlignFrom(buff, 1, [rest |-> PARSE_WIDTH, mold |-> <<>>]).mold

\* a token of n characters
Token(n) == Repeat("x", n)

\* the token lengths tried: around a half line, a whole line and beyond
TokenLens == {1, 14, 15, 16, 33, 34, MaxTokenLen}

TokenSeqs ==
    UNION {[1..n -> {Token(l) : l \in TokenLens}] : n \in 0..MaxTokens}

AlignInit ==
    /\ NoRun
    /\ pc = "align_mold_ftr"
    /\ arg \in TokenSeqs
    /\ ret = <<>>

Align ==
    /\ pc = "align_mold_ftr"
    /\ ret = <<>>
    /\ ret' = <<AlignMoldFtr(arg)>>
    /\ UNCHANGED <<arg, pc, runvars>>

AlignNext == Align

SpecAlign == AlignInit /\ [][AlignNext]_vars

\* ------------------------------------------------- the feature decoders
\* A u32 register is kept as the set of the indices of its set bits.
\* Reg::to_bool_array: array[i] is bit i
ToBoolArray(reg) == [i \in 0..31 |-> i \in reg]

\* the loop of str_detect_ftr from bit i on; ftr_str[i + 1] is the label of
\* bit i, and zip stops at the shorter of the two
RECURSIVE StrDetectFrom(_, _, _, _)
StrDetectFrom(reg, ftr_str, i, buff) ==
    IF i > 31 \/ i + 1 > Len(ftr_str) THEN buff
    ELSE StrDetectFrom(reg, ftr_str, i + 1,
            IF reg[i] /\ 0 < Len(ftr_str[i + 1])
            THEN Append(buff, ftr_str[i + 1]) ELSE buff)

StrDetectFtr(reg, ftr_str) == StrDetectFrom(ToBoolArray(reg), ftr_str, 0, <<>>)

\* the loop of ftr_variant_expand from entry k on
RECURSIVE PushFlags(_, _, _)
PushFlags(base, flag_str, k) ==
    IF k > Len(flag_str) THEN base
    ELSE PushFlags(IF flag_str[k][1] THEN base \o flag_str[k][2] \o "," ELSE base,
                   flag_str, k + 1)

\* String::pop: drops the last character, if there is one
Pop(base) == IF Len(base) = 0 THEN base ELSE SubSeq(base, 1, Len(base) - 1)

FtrVariantExpand(base_name, flag_str) ==
    Pop(PushFlags(base_name \o "{", flag_str, 1)) \o "}"

\* the label tables, by the one entry of each that the inputs can reach
OneLabel(bit, label) == [i \in 1..32 |-> IF i = bit + 1 THEN label ELSE ""]

FTR_00_01_EDX_X0 == OneLabel(0, "FPU")

FTR_00_01_ECX_X0 == OneLabel(1, "PCLMULQDQ")

FTR_00_07_EBX_X0 == OneLabel(5, "AVX2")

FTR_00_07_ECX_X0 == OneLabel(2, "UMIP")

FTR_00_07_EDX_X0 == OneLabel(4, "FSRM")

FTR_80_01_ECX_X0 == OneLabel(0, "LAHF/SAHF")

\* buff.push(token) when cond
PushIf(buff, cond, token) == IF cond THEN Append(buff, token) ELSE buff

feature_00_01h(cpuid) ==
    LET buff == StrDetectFtr(cpuid.edx, FTR_00_01_EDX_X0)
                    \o StrDetectFtr(cpuid.ecx, FTR_00_01_ECX_X0)
        ecx == ToBoolArray(cpuid.ecx)
        edx == ToBoolArray(cpuid.edx)
        v == <<<<edx[26], "2">>, <<ecx[0], "3">>, <<ecx[19], "4.1">>,
               <<ecx[20], "4.2">>>>
        b1 == PushIf(buff, edx[25], FtrVariantExpand("SSE", v))
        b2 == PushIf(b1, ecx[9], "SSSE3")
    IN  AlignMoldFtr(b2)

feature_00_07h_x0(cpuid) ==
    LET buff == StrDetectFtr(cpuid.ebx, FTR_00_07_EBX_X0)
                    \o StrDetectFtr(cpuid.ecx, FTR_00_07_ECX_X0)
                    \o StrDetectFtr(cpuid.edx, FTR_00_07_EDX_X0)
        ebx == ToBoolArray(cpuid.ebx)
        ecx == ToBoolArray(cpuid.ecx)
        edx == ToBoolArray(cpuid.edx)
        v1 == <<<<ebx[16], "F">>, <<ebx[17], "DQ">>, <<ebx[21], "IFMA">>,
                <<ebx[28], "CD">>, <<ebx[30], "BW">>, <<ebx[31], "VL">>>>
        b1 == PushIf(buff,
                ebx[16] \/ ebx[17] \/ ebx[21] \/ ebx[28] \/ ebx[30] \/ ebx[31],
                FtrVariantExpand("AVX512", v1))
        b2 == PushIf(b1, ebx[26] /\ ebx[27], "AVX512{PF,ER}")
        v2 == <<<<ecx[1], "VBMI">>, <<ecx[6], "VBMI2">>, <<ecx[11], "VNNI">>,
                <<ecx[12], "BITALG">>, <<ecx[14], "VPOPCNTDQ">>>>
        b3 == PushIf(b2, ecx[1] \/ ecx[6] \/ ecx[11] \/ ecx[12] \/ ecx[14],
                FtrVariantExpand("AVX512", v2))
        b4 == PushIf(b3, edx[2] /\ edx[3], "AVX512{4VNNIW,4FMAPS}")
        v3 == <<<<edx[8], "VP2INTERSECT">>, <<edx[23], "FP16">>>>
        b5 == PushIf(b4, edx[8] \/ edx[23], FtrVariantExpand("AVX512", v3))
        b6 == PushIf(b5, edx[22] /\ edx[24] /\ edx[25], "AMX{BF16,TILE,INT8}")
    IN  AlignMoldFtr(b6)

feature_80_01h(cpuid) ==
    LET buff == StrDetectFtr(cpuid.ecx, FTR_80_01_ECX_X0)
        edx == ToBoolArray(cpuid.edx)
        v == <<<<edx[30], "EXT">>>>
        b1 == PushIf(buff, edx[31], FtrVariantExpand("3DNow!", v))
    IN  AlignMoldFtr(b1)

\* the registers the decoders are applied to
Regs(ebx, ecx, edx) == [ebx |-> ebx, ecx |-> ecx, edx |-> edx]

Inputs_00_01h ==
    {Regs({}, c, d) : c \in SUBSET {0, 1, 9, 19, 20}, d \in SUBSET {0, 25, 26}}

Inputs_00_07h ==
    {Regs(b, c, d) : b \in (SUBSET {16, 17, 21, 28, 30, 31})
                            \cup {{5}, {26}, {26, 27}, {5, 16, 26, 27}},
                     c \in {{}, {1, 14}}, d \in {{}, {8}}}
    \cup {Regs(b, c, d) : b \in {{}, {16}},
                          c \in (SUBSET {1, 6, 11, 12, 14}) \cup {{2}},
                          d \in (SUBSET {8, 23})
                                 \cup {{4}, {2}, {2, 3}, {22, 24}, {22, 24, 25}}}

Inputs_80_01h ==
    {Regs({}, c, d) : c \in SUBSET {0}, d \in SUBSET {30, 31}}

DecodeInit ==
    /\ NoRun
    /\ pc = "parse"
    /\ arg \in ({"feature_00_01h"} \X Inputs_00_01h)
                \cup ({"feature_00_07h_x0"} \X Inputs_00_07h)
                \cup ({"feature_80_01h"} \X Inputs_80_01h)
    /\ ret = <<>>

Parse_00_01h ==
    /\ pc = "parse"
    /\ ret = <<>>
    /\ arg[1] = "feature_00_01h"
    /\ ret' = <<feature_00_01h(arg[2])>>
    /\ UNCHANGED <<arg, pc, runvars>>

Parse_00_07h_x0 ==
    /\ pc = "parse"
    /\ ret = <<>>
    /\ arg[1] = "feature_00_07h_x0"
    /\ ret' = <<feature_00_07h_x0(arg[2])>>
    /\ UNCHANGED <<arg, pc, runvars>>

Parse_80_01h ==
    /\ pc = "parse"
    /\ ret = <<>>
    /\ arg[1] = "feature_80_01h"
    /\ ret' = <<feature_80_01h(arg[2])>>
    /\ UNCHANGED <<arg, pc, runvars>>

DecodeNext ==
    \/ Parse_00_01h
    \/ Parse_00_07h_x0
    \/ Parse_80_01h

SpecDecode == DecodeInit /\ [][DecodeNext]_vars

\* ------------------------------------------------------- MicroArchLevel
\* the masks, as the sets of the bits they are or-ed from
BASE_LINE == {0, 8, 11, 15, 23, 24, 25, 26}

X86_64_V2 == <<{0, 9, 13, 19, 20, 23}, {0}>>

X86_64_V3 == <<{12, 22, 27, 28, 29}, {3, 5, 8}, {5}>>

X86_64_V4 == {16, 17, 28, 30, 31}

\* the shorter of two lengths: where zip stops
MinLen(a, b) == IF Len(a) <= Len(b) THEN Len(a) ELSE Len(b)

\* a mask test that is content with one feature of each mask
MaskAny(bitmask, cpuid) ==
    \A k \in 1..MinLen(bitmask, cpuid) :
        bitmask[k] \cap cpuid[k] # {}

\* the closure mask: false at the first pair with (bitmask & cpuid) != bitmask
Mask(bitmask, cpuid) ==
    \A k \in 1..MinLen(bitmask, cpuid) :
        ~((bitmask[k] \cap cpuid[k]) # bitmask[k])

\* a | b on u8
RECURSIVE BitOrFrom(_, _, _)
BitOrFrom(a, b, i) ==
    IF i > 7 THEN 0
    ELSE (IF (a \div (2 ^ i)) % 2 = 1 \/ (b \div (2 ^ i)) % 2 = 1
          THEN 2 ^ i ELSE 0) + BitOrFrom(a, b, i + 1)

BitOr(a, b) == BitOrFrom(a, b, 0)

\* MicroArchLevel::from_cpuid_array(..).0
from_cpuid_array(cpuid_array) ==
    LET cpuid_00_01 == cpuid_array[1]
        cpuid_00_07 == cpuid_array[2]
        cpuid_80_01 == cpuid_array[3]
        base_line == Mask(<<BASE_LINE>>, <<cpuid_00_01.edx>>)
        x86_64_v2 == Mask(X86_64_V2, <<cpuid_00_01.ecx, cpuid_80_01.ecx>>)
        x86_64_v3 == Mask(X86_64_V3,
                        <<cpuid_00_01.ecx, cpuid_00_07.ebx, cpuid_80_01.ecx>>)
        x86_64_v4 == Mask(<<X86_64_V4>>, <<cpuid_00_07.ebx>>)
        l0 == IF base_line THEN 1 ELSE 0
        l1 == IF x86_64_v2 THEN BitOr(l0, 2 ^ 1) ELSE l0
        l2 == IF x86_64_v3 THEN BitOr(l1, 2 ^ 2) ELSE l1
        l3 == IF x86_64_v4 THEN BitOr(l2, 2 ^ 3) ELSE l2
    IN  l3

\* the set bits of a register below 2^31
Bits(n) == {i \in 0..30 : (n \div (2 ^ i)) % 2 = 1}

CpuidResult(eax, ebx, ecx, edx) ==
    [eax |-> eax, ebx |-> ebx, ecx |-> ecx, edx |-> edx]

\* the registers of test_micro_arch_level (Ryzen 5 5600G)
TestCpuidArray ==
    <<CpuidResult(Bits(10817280), Bits(168560640), Bits(2130194955), Bits(395049983)),
      CpuidResult(Bits(0), Bits(563910569), Bits(4195980), Bits(16)),
      CpuidResult(Bits(10817280), Bits(536870912), Bits(1975662591), Bits(802421759))>>

\* registers with every feature of every level, less some of them
LevelInputs ==
    {<<CpuidResult({}, {}, (X86_64_V2[1] \cup X86_64_V3[1]) \ c1, BASE_LINE \ d1),
       CpuidResult({}, (X86_64_V3[2] \cup X86_64_V4) \ b7, {}, {}),
       CpuidResult({}, {}, (X86_64_V2[2] \cup X86_64_V3[3]) \ c8, {})>> :
        c1 \in SUBSET {0, 28}, d1 \in SUBSET {0, 26},
        b7 \in SUBSET {5, 16, 31}, c8 \in SUBSET {0, 5}}
    \cup {TestCpuidArray}

LevelInit ==
    /\ NoRun
    /\ pc = "from_cpuid_array"
    /\ arg \in LevelInputs
    /\ ret = <<>>

FromCpuidArray ==
    /\ pc = "from_cpuid_array"
    /\ ret = <<>>
    /\ ret' = <<from_cpuid_array(arg)>>
    /\ UNCHANGED <<arg, pc, runvars>>

LevelNext == FromCpuidArray

SpecLevel == LevelInit /\ [][LevelNext]_vars

\* ------------------------------------------- MainOpt::run, every option
\* the --leaf restrictions tried: none, or leaf 0x1 sub-leaf 0
LeafOpts == {<<>>, <<<<Leaf(0, 1), 0>>>>}

\* topo_info_head()
TopoInfoHead == <<[kind |-> "topo_info_head"]>>

RunInit ==
    /\ disc \in CoordDiscovery
    /\ leaf_pool = <<>>
    /\ plan_builds = 0
    /\ opt \in [skip_zero : BOOLEAN, diff : BOOLEAN, save_path : BOOLEAN,
                dump_all : BOOLEAN, leaf : LeafOpts]
    /\ cpu_list \in CpuSetLists
    /\ pc = "main"
    /\ scoped = IdleThread
    /\ first_pool = <<>>
    /\ main_pool = <<>>
    /\ handles = <<>>
    /\ task = [i \in TaskIds |-> IdleThread]
    /\ affinity = [t \in Threads |-> {}]
    /\ swept = [t \in Threads |-> <<>>]
    /\ overtaken = FALSE
    /\ stdout = <<>>
    /\ file = <<>>
    /\ arg = <<>>
    /\ ret = <<>>

\* the match of run, first arm first, and the test of dump_pool: a leaf
\* goes to only_leaf whatever save_path is
RunMatch ==
    /\ pc = "main"
    /\ pc' = IF opt.leaf # <<>> THEN "only_leaf"
             ELSE IF opt.dump_all THEN "run"
             ELSE "dump_pool"
    /\ UNCHANGED <<arg, ret, runvars>>

\* only_leaf: one probe, rendered behind the two headers, to dump_write
OnlyLeaf ==
    /\ pc = "only_leaf"
    /\ \E regs \in RegVals :
        LET raw_result == RawCpuidExe(opt.leaf[1][1], opt.leaf[1][2], regs)
            tmp == TopoInfoHead \o HeadFmt \o SelectPool(<<raw_result>>)
        IN  \/ /\ pc' = "panicked"
               /\ UNCHANGED stdout
            \/ /\ stdout' = stdout \o tmp
               /\ pc' = "done"
    /\ UNCHANGED <<arg, ret, disc, leaf_pool, plan_builds, opt, cpu_list,
                   scoped, first_pool, main_pool, handles, task, affinity,
                   swept, overtaken, file>>

\* dump_pool without dump_all: one sweep on the calling thread
DumpPoolOne ==
    /\ pc = "dump_pool"
    /\ LET plan == LeafPoolOf(disc[1], disc[2], disc[3]) IN
       /\ leaf_pool' = <<plan>>
       /\ plan_builds' = plan_builds + 1
       /\ \E regs \in Sweeps(plan) :
            LET rawcpuid_pool == RawcpuidPool(opt.skip_zero, plan, regs) IN
            /\ swept' = [swept EXCEPT ![0] =
                    <<[plan |-> plan, regs |-> regs, pool |-> rawcpuid_pool]>>]
            /\ main_pool' = TopoInfoHead \o HeadFmt \o SelectPool(rawcpuid_pool)
    /\ pc' = "returned"
    /\ UNCHANGED <<arg, ret, disc, opt, cpu_list, scoped, first_pool, handles,
                   task, affinity, overtaken, stdout, file>>

RunNext ==
    \/ RunMatch
    \/ OnlyLeaf
    \/ DumpPoolOne
    \/ MainStep
    \/ ScopedRun
    \/ \E i \in TaskIds : TaskRun(i)

SpecRun == RunInit /\ [][RunNext]_vars

\* ------------------------------------------------------- reading states
\* the processors of the thread headers of a buffer, in buffer order
BlockOwners(buf) ==
    LET heads == SelectSeq(buf, LAMBDA p : p.kind = "thread_id_head")
    IN  [k \in 1..Len(heads) |-> heads[k].thread_id]

\* the RawCpuids rendered in a block, in block order
EntriesOf(block) ==
    LET es == SelectSeq(block, LAMBDA p : p.kind = "entry")
    IN  [k \in 1..Len(es) |-> es[k].raw]

\* the entries of s at the positions in keep, in the order of s
Pick(s, keep) ==
    [n \in 1..Cardinality(keep) |->
        s[CHOOSE k \in keep : Cardinality({j \in keep : j <= k}) = n]]

IsPrefix(s, t) == Len(s) <= Len(t) /\ s = SubSeq(t, 1, Len(s))

Returned == pc \in {"returned", "done"}

Ended(t) == t.st \in {"finished", "joined"}

PinFailed ==
    \/ scoped.why = "pin_thread"
    \/ \E i \in TaskIds : task[i].why = "pin_thread"

\* -------------------------------------------------------------------- C1
\* C1: whatever order the tasks end in, the blocks of the buffer are those of
\* cpu_list in the order of cpu_list (ascending processor identifiers), the
\* baseline's first: at every moment the blocks taken so far are a prefix of
\* cpu_list, and the returned buffer holds all of them.
C1_BlocksInProcessorOrder ==
    /\ IsPrefix(BlockOwners(main_pool), cpu_list)
    /\ \A k \in 1..(Len(cpu_list) - 1) : cpu_list[k] < cpu_list[k + 1]
    /\ Returned => BlockOwners(main_pool) = cpu_list

\* three processors, the third one's task ended before the second one's
C1_Witness ==
    /\ Returned
    /\ Len(cpu_list) = 3
    /\ overtaken
    /\ BlockOwners(main_pool) = <<0, 1, 2>>

\* -------------------------------------------------------------------- C2
\* the positions where b differs from a in at least one register
DifferAt(a, b) ==
    {k \in 1..Len(b) : \E r \in 1..4 : a[k].result[r] # b[k].result[r]}

\* C2: a task whose sample has the length of the baseline sample renders,
\* with diffing enabled, exactly its entries that differ from the baseline
\* entry at the same position in a register, in order; with diffing disabled
\* it renders its sample unchanged.
C2_DiffSample ==
    \A i \in TaskIds :
        (Ended(task[i]) /\ Len(swept[i][1].pool) = Len(first_pool[1])) =>
            LET B == swept[i][1].pool
                A == first_pool[1]
            IN  EntriesOf(task[i].out) =
                    IF opt.diff THEN Pick(B, DifferAt(A, B)) ELSE B

\* diffing on: the second task kept one entry of an equal-length sample and
\* dropped the others
C2_Witness ==
    /\ opt.diff
    /\ Ended(task[2])
    /\ Len(swept[2][1].pool) = Len(first_pool[1])
    /\ Len(EntriesOf(task[2].out)) = 1
    /\ EntriesOf(task[2].out)[1] = swept[2][1].pool[2]

\* -------------------------------------------------------------------- C3
\* C3: a task whose sample length differs from the baseline's (shorter or
\* longer) does not panic in the diff: it ends with a block to join.
C3_NoCrashOnLengthMismatch ==
    \A i \in TaskIds :
        (swept[i] # <<>> /\ Len(swept[i][1].pool) # Len(first_pool[1])) =>
            task[i].st # "panicked"

\* -------------------------------------------------------------------- C4
StdSubMax(lo, subc) ==
    CASE lo = 4 -> 4 [] lo = 7 -> subc [] lo = 11 -> 1 [] lo = 13 -> 14 [] OTHER -> 0

ExtSubMax(lo) ==
    CASE lo = 29 -> 4 [] lo = 32 -> 1 [] OTHER -> 0

QueryLt(p, q) == LeafLt(p[1], q[1]) \/ (p[1] = q[1] /\ p[2] < q[2])

\* s lists the set S once each, ascending by leaf and then by sub-leaf
IsAscendingListOf(s, S) ==
    /\ Len(s) = Cardinality(S)
    /\ {s[i] : i \in 1..Len(s)} = S
    /\ \A i \in 1..(Len(s) - 1) : QueryLt(s[i], s[i + 1])

StdQueries(d) ==
    {q \in {Leaf(0, l) : l \in 0..d[1][2]} \X (0..(14 + d[2])) :
        q[2] <= StdSubMax(q[1][2], d[2])}

ExtQueries(d) ==
    IF d[3][1] = 0 THEN {}
    ELSE {q \in {Leaf(1, l) : l \in 0..d[3][2]} \X (0..4) :
            q[2] <= ExtSubMax(q[1][2])}

\* C4: leaf_pool returns the standard leaves 0..=max_std_leaf ascending with
\* sub-leaves 0..=4 for 0x4, 0..=leaf7_subcount for 0x7, 0..=1 for 0xB,
\* 0..=14 for 0xD and 0 otherwise, then (0x1F, 0..=4), then the extended
\* leaves 0x8000_0000..=max_ext_leaf ascending with sub-leaves 0..=4 for
\* 0x8000_001D, 0..=1 for 0x8000_0020 and 0 otherwise.
C4_LeafPoolSequence ==
    leaf_pool # <<>> =>
        LET p == leaf_pool[1]
            a == Cardinality(StdQueries(disc))
        IN  /\ Len(p) = a + 5 + Cardinality(ExtQueries(disc))
            /\ IsAscendingListOf(SubSeq(p, 1, a), StdQueries(disc))
            /\ SubSeq(p, a + 1, a + 5) = [s \in 1..5 |-> <<Leaf(0, 31), s - 1>>]
            /\ IsAscendingListOf(SubSeq(p, a + 6, Len(p)), ExtQueries(disc))

\* a plan built for max_std_leaf = 0xD, two sub-leaves of leaf 0x7 and
\* max_ext_leaf = 0x8000_0020: every expanded leaf is in it
C4_Witness ==
    /\ leaf_pool # <<>>
    /\ disc = <<Leaf(0, 13), 1, Leaf(1, 32)>>
    /\ Len(leaf_pool[1]) = (10 + 5 + 2 + 2 + 15) + 5 + (31 + 5 + 2)

\* -------------------------------------------------------------------- C5
\* the probe results of a sweep, one per query of the plan
Probed(s) ==
    [k \in 1..Len(s.plan) |->
        [leaf |-> s.plan[k][1], sub_leaf |-> s.plan[k][2], result |-> s.regs[k]]]

\* C5: the sample of every sweep is, with zero-skip on, the probe results
\* whose registers are not all zero, in plan order, and with zero-skip off
\* every probe result in plan order; nothing but the sweep's own results
\* decides what is kept.
C5_SweepSample ==
    \A t \in Threads :
        swept[t] # <<>> =>
            LET s == swept[t][1]
                keep == IF opt.skip_zero
                        THEN {k \in 1..Len(s.plan) : s.regs[k] # ZeroRegs}
                        ELSE 1..Len(s.plan)
            IN  s.pool = Pick(Probed(s), keep)

\* zero-skip on: the second processor answered its second query with zeros,
\* which the baseline processor did not, and its sample lacks that entry only
C5_Witness ==
    /\ opt.skip_zero
    /\ swept[1] # <<>> /\ swept[2] # <<>>
    /\ swept[1][1].regs[2] # ZeroRegs
    /\ swept[2][1].regs[1] # ZeroRegs
    /\ swept[2][1].regs[2] = ZeroRegs
    /\ Len(swept[2][1].pool) = Len(leaf_pool[1]) - 1
    /\ swept[2][1].pool[2].sub_leaf = leaf_pool[1][3][2]

\* -------------------------------------------------------------------- C6
\* C6: once pin_thread failed on the baseline thread or on a task, the
\* coordinator never returns its buffer, nothing reaches standard output and
\* no file is created.
C6_PinFailureAborts ==
    PinFailed => (~Returned /\ stdout = <<>> /\ file = <<>>)

\* the third processor could not be bound; the second one's block was joined
\* before the run aborted
C6_Witness ==
    /\ pc = "panicked"
    /\ task[3].st = "panicked" /\ task[3].why = "pin_thread"
    /\ task[2].st = "joined"
    /\ Len(BlockOwners(main_pool)) = 2
    /\ stdout = <<>> /\ file = <<>>

\* -------------------------------------------------------------------- C7
BaselineDone == scoped.st = "finished" /\ swept[1] # <<>> /\ first_pool # <<>>

TasksAfterBaseline ==
    \A i \in TaskIds : (task[i].st # "idle" \/ swept[i] # <<>>) => BaselineDone

\* C7: no task is spawned, and none sweeps or reads the baseline sample,
\* before the baseline sweep ended and its sample was published; a published
\* baseline sample never changes.
C7_BaselineFirstThenFrozen ==
    /\ []TasksAfterBaseline
    /\ [][first_pool # <<>> => first_pool' = first_pool]_vars

\* both tasks ended after diffing against the published baseline
C7_Witness ==
    /\ opt.diff
    /\ BaselineDone
    /\ Ended(task[2]) /\ Ended(task[3])
    /\ Len(EntriesOf(task[3].out)) = 1

\* -------------------------------------------------------------------- C8
\* the baseline was pinned, headed and swept by thread t
BaselineRanOn(t) ==
    /\ affinity[t] = {cpu_list[1]}
    /\ swept[t] # <<>>
    /\ scoped.out[2] = ThreadIdHead(cpu_list[1], cpu_list[1])

\* C8 as claimed: the binding to processor[0], its header and the baseline
\* sweep are done by the calling thread itself.
C8_BaselineOnCaller ==
    scoped.st = "finished" => BaselineRanOn(0)

\* C8 as amended: they are done by the scoped thread spawned for them, which
\* the calling thread waits for; the calling thread itself is never bound to
\* a processor and sweeps nothing.
C8_BaselineOnScopedThread ==
    /\ scoped.st = "running" => pc = "scope_join"
    /\ scoped.st = "finished" => BaselineRanOn(1)
    /\ affinity[0] = {} /\ swept[0] = <<>>

\* the baseline ended on the scoped thread and the caller went on to spawn
C8_Witness ==
    /\ scoped.st = "finished"
    /\ BaselineRanOn(1)
    /\ pc = "spawn"
    /\ affinity[0] = {}

\* -------------------------------------------------------------------- C9
\* C9: the plan is the function LeafPoolOf of the three discovery values; it
\* is built once, before any sweep, and every sweep of the run, the
\* baseline's and each task's, is a sweep of that one sequence.
C9_OnePlanForAll ==
    /\ plan_builds <= 1
    /\ leaf_pool # <<>> =>
        (plan_builds = 1 /\ leaf_pool[1] = LeafPoolOf(disc[1], disc[2], disc[3]))
    /\ \A t \in Threads :
        swept[t] # <<>> => (leaf_pool # <<>> /\ swept[t][1].plan = leaf_pool[1])

\* three processors swept the plan built for max_std_leaf = 1
C9_Witness ==
    /\ plan_builds = 1
    /\ disc[1] = Leaf(0, 1)
    /\ \A t \in 1..3 : swept[t] # <<>> /\ Len(swept[t][1].plan) = 8

\* ------------------------------------------------------------------- C10
\* the returned buffer: every task was joined, and the buffer holds one block
\* per processor of cpu_list, each under that processor's own header
BufferAtReturn ==
    Returned =>
        /\ \A i \in 2..Len(cpu_list) : task[i].st = "joined"
        /\ BlockOwners(main_pool) = cpu_list
        /\ \A k \in 1..Len(main_pool) :
            main_pool[k].kind = "thread_id_head" =>
                main_pool[k].on = main_pool[k].thread_id

\* C10: when no binding fails and every thread gets to run, the coordinator
\* eventually returns, only after every task ended, with exactly one block
\* per processor, each starting with that processor's header.
C10_ReturnsWithEveryBlock ==
    /\ <>(PinFailed \/ Returned)
    /\ []BufferAtReturn

\* ------------------------------------------------------------------- C11
\* the fixed block of leaf 0x1F
Block1F == [s \in 1..5 |-> <<Leaf(0, 31), s - 1>>]

\* C11: for every triple of discovery values leaf_pool returns a plan; a
\* max_ext_leaf below 0x8000_0000 gives no extended entry, max_std_leaf = 0
\* gives the single standard entry (0, 0), and the block (0x1F, 0..=4) is
\* in the plan in every case.
C11_DegenerateRanges ==
    /\ (pc = "leaf_pool" /\ leaf_pool = <<>>) => ENABLED BuildPlan
    /\ leaf_pool # <<>> =>
        LET p == leaf_pool[1] IN
        /\ disc[3][1] = 0 => \A k \in 1..Len(p) : p[k][1][1] = 0
        /\ disc[1] = Leaf(0, 0) =>
                /\ p[1] = <<Leaf(0, 0), 0>>
                /\ SubSeq(p, 2, 6) = Block1F
        /\ \E k \in 1..(Len(p) - 4) : SubSeq(p, k, k + 4) = Block1F

\* both ranges degenerate: max_std_leaf = 0 and max_ext_leaf = 0x7FFF_FFFF
\* leave (0, 0) and the block of 0x1F
C11_Witness ==
    /\ leaf_pool # <<>>
    /\ disc[1] = Leaf(0, 0)
    /\ disc[3] = Leaf(0, 2147483647)
    /\ leaf_pool[1] = <<<<Leaf(0, 0), 0>>>> \o Block1F

\* ------------------------------------------------------------------- C17
\* C17: no (leaf, sub_leaf) pair occurs more than once in the plan that
\* leaf_pool returns.
C17_NoDuplicateQuery ==
    leaf_pool # <<>> =>
        LET p == leaf_pool[1] IN
        \A i, j \in 1..Len(p) : i < j => p[i] # p[j]

\* ------------------------------------------------------- C13, C14, C18
\* the decorated length of token k of the entry
DecoLen(k) == Len(arg[k]) + 3

\* piece k of the mold starts a new line
Wrapped(mold, k) == SubSeq(mold[k], 1, 1) = "\n"

\* the piece that starts the line piece k is on (1 for the first line)
LineStart(mold, k) ==
    LET W == {j \in 1..k : Wrapped(mold, j)}
    IN  IF W = {} THEN 1 ELSE CHOOSE j \in W : \A i \in W : i <= j

RECURSIVE SumDeco(_, _)
SumDeco(a, b) == IF a > b THEN 0 ELSE DecoLen(a) + SumDeco(a + 1, b)

\* the bracketed characters on the line of piece k, up to and with piece k
LineUsed(mold, k) == SumDeco(LineStart(mold, k), k)

\* the width left on the current line when token k is placed
Remaining(mold, k) ==
    IF k = 1 THEN 36
    ELSE IF LineUsed(mold, k - 1) >= 36 THEN 0
    ELSE 36 - LineUsed(mold, k - 1)

Inline(k) == " [" \o arg[k] \o "]"

OnNewLine(k) == "\n" \o Repeat(" ", 19 + 44 + 1) \o " [" \o arg[k] \o "]"

\* C13: starting from a remaining width of PARSE_WIDTH, a token whose
\* decorated length equals the remaining width is appended inline, and a
\* token whose decorated length is one more than the remaining width goes
\* on a new line behind the input+output left-pad.
C13_WrapBoundary ==
    (pc = "align_mold_ftr" /\ ret # <<>>) =>
        /\ PARSE_WIDTH = 36
        /\ Len(ret[1]) = Len(arg)
        /\ \A k \in 1..Len(arg) :
            /\ DecoLen(k) = Remaining(ret[1], k) => ret[1][k] = Inline(k)
            /\ DecoLen(k) = Remaining(ret[1], k) + 1 => ret[1][k] = OnNewLine(k)

\* a token that fills the first line exactly, then one that is one too long
\* for the 18 left after a wrap, then one that fits the 17 left exactly
C13_Witness ==
    /\ pc = "align_mold_ftr"
    /\ ret # <<>>
    /\ arg = <<Token(15), Token(16), Token(14)>>
    /\ ret[1] = <<Inline(1), OnNewLine(2), Inline(3)>>
    /\ Remaining(ret[1], 2) = 18
    /\ Remaining(ret[1], 3) = 17

\* C14 as stated: after a token whose decorated length exceeds the whole
\* budget, no later token of the entry is appended inline.
C14_AllLaterTokensWrap ==
    (pc = "align_mold_ftr" /\ ret # <<>>) =>
        \A k, j \in 1..Len(arg) :
            (DecoLen(k) > 36 /\ k < j) => ret[1][j] = OnNewLine(j)

\* C14 amended: after a token whose decorated length exceeds the whole
\* budget, the next token of the entry goes on a new line; a token after
\* that one is appended inline exactly when it fits what is left of its line.
C14_NextTokenWraps ==
    (pc = "align_mold_ftr" /\ ret # <<>>) =>
        \A k \in 1..Len(arg) : DecoLen(k) > 36 =>
            /\ k < Len(arg) => ret[1][k + 1] = OnNewLine(k + 1)
            /\ \A j \in (k + 2)..Len(arg) :
                IF DecoLen(j) <= Remaining(ret[1], j)
                THEN ret[1][j] = Inline(j)
                ELSE ret[1][j] = OnNewLine(j)

\* an oversized token, a short one on the next line, a short one beside it
C14_Witness ==
    /\ pc = "align_mold_ftr"
    /\ ret # <<>>
    /\ arg = <<Token(40), Token(1), Token(1)>>
    /\ ret[1] = <<OnNewLine(1), OnNewLine(2), Inline(3)>>

\* C18: every token appears once and in input order as a " [token]"
\* segment, and the segments of one output line total at most PARSE_WIDTH
\* (36) characters unless the line holds a single token whose decorated
\* length alone exceeds the budget.
C18_TokensOnceWithinBudget ==
    (pc = "align_mold_ftr" /\ ret # <<>>) =>
        /\ PARSE_WIDTH = 36
        /\ Len(ret[1]) = Len(arg)
        /\ \A k \in 1..Len(arg) :
            /\ ret[1][k] \in {Inline(k), OnNewLine(k)}
            /\ \/ LineUsed(ret[1], k) <= 36
               \/ /\ DecoLen(k) > 36
                  /\ LineStart(ret[1], k) = k
                  /\ k < Len(arg) => Wrapped(ret[1], k + 1)

\* a line filled to the last column, and an oversized token alone on its line
C18_Witness ==
    /\ pc = "align_mold_ftr"
    /\ ret # <<>>
    /\ arg = <<Token(15), Token(15), Token(34)>>
    /\ ret[1] = <<Inline(1), Inline(2), OnNewLine(3)>>
    /\ LineUsed(ret[1], 2) = 36
    /\ LineUsed(ret[1], 3) = 37

\* ------------------------------------------------------------------- C12
\* the token inside piece p of a mold
TokenOfPiece(p) ==
    LET q == IF SubSeq(p, 1, 1) = "\n" THEN SubSeq(p, 66, Len(p)) ELSE p
    IN  SubSeq(q, 3, Len(q) - 1)

HasBrace(t) == \E i \in 1..Len(t) : SubSeq(t, i, i) \in {"{", "}"}

RECURSIVE CommaJoined(_, _)
CommaJoined(s, k) ==
    IF k = Len(s) THEN s[k] ELSE s[k] \o "," \o CommaJoined(s, k + 1)

\* BASE{s1,...,sk} for every choice of k >= 1 suffixes, in declaration order
GroupTokens(base, suffixes) ==
    {base \o "{" \o CommaJoined([n \in 1..Len(Ascending(S)) |->
                                    suffixes[Ascending(S)[n]]], 1) \o "}" :
        S \in (SUBSET (1..Len(suffixes))) \ {{}}}

CompoundTokens ==
    GroupTokens("SSE", <<"2", "3", "4.1", "4.2">>)
    \cup GroupTokens("AVX512", <<"F", "DQ", "IFMA", "CD", "BW", "VL">>)
    \cup GroupTokens("AVX512", <<"VBMI", "VBMI2", "VNNI", "BITALG", "VPOPCNTDQ">>)
    \cup GroupTokens("AVX512", <<"VP2INTERSECT", "FP16">>)
    \cup GroupTokens("3DNow!", <<"EXT">>)
    \cup {"AVX512{PF,ER}", "AVX512{4VNNIW,4FMAPS}", "AMX{BF16,TILE,INT8}"}

\* C12: every compound token a decoder emits has the form BASE{s1,...,sk}
\* with k >= 1, the suffixes in declaration order, comma-joined, no trailing
\* comma; EDX bits 25 and 26 set with ECX bits 0, 19, 20 clear gives "SSE{2}".
C12_CompoundTokenForm ==
    (pc = "parse" /\ ret # <<>>) =>
        LET tokens == [k \in 1..Len(ret[1]) |-> TokenOfPiece(ret[1][k])] IN
        /\ \A k \in 1..Len(tokens) :
                HasBrace(tokens[k]) => tokens[k] \in CompoundTokens
        /\ ( /\ arg[1] = "feature_00_01h"
             /\ {25, 26} \subseteq arg[2].edx
             /\ arg[2].ecx \cap {0, 19, 20} = {} )
           => \E k \in 1..Len(tokens) : tokens[k] = "SSE{2}"

\* ------------------------------------------------------------------- C16
\* the features of each level, by register
BaselineFeatures(a) ==
    {0, 8, 11, 15, 23, 24, 25, 26} \subseteq a[1].edx

V2Features(a) ==
    /\ {0, 9, 13, 19, 20, 23} \subseteq a[1].ecx
    /\ {0} \subseteq a[3].ecx

V3Features(a) ==
    /\ {12, 22, 27, 28, 29} \subseteq a[1].ecx
    /\ {3, 5, 8} \subseteq a[2].ebx
    /\ {5} \subseteq a[3].ecx

V4Features(a) == {16, 17, 28, 30, 31} \subseteq a[2].ebx

LevelBit(level, i) == (level \div (2 ^ i)) % 2 = 1

\* C16: from_cpuid_array sets bit 0 iff every baseline feature is in leaf
\* 0x1 EDX, bit 1 iff every v2 feature is in leaf 0x1 ECX and 0x8000_0001
\* ECX, bit 2 iff every v3 feature is in leaf 0x1 ECX, leaf 0x7 EBX and
\* 0x8000_0001 ECX, bit 3 iff every v4 feature is in leaf 0x7 EBX, each on
\* its own; all of baseline, v2, v3 without an AVX-512 bit gives 0b0111.
C16_LevelBits ==
    (pc = "from_cpuid_array" /\ ret # <<>>) =>
        /\ ret[1] \in 0..15
        /\ LevelBit(ret[1], 0) <=> BaselineFeatures(arg)
        /\ LevelBit(ret[1], 1) <=> V2Features(arg)
        /\ LevelBit(ret[1], 2) <=> V3Features(arg)
        /\ LevelBit(ret[1], 3) <=> V4Features(arg)
        /\ ( /\ BaselineFeatures(arg)
             /\ V2Features(arg)
             /\ V3Features(arg)
             /\ ~V4Features(arg) ) => ret[1] = 7

\* the registers of the repository's test: no AVX512F, level 0b0111
C16_Witness ==
    /\ pc = "from_cpuid_array"
    /\ arg = TestCpuidArray
    /\ 16 \notin arg[2].ebx
    /\ ret = <<7>>

\* ------------------------------------------------------------------- C15
\* C15: whenever the configuration carries a save path, a run that ends
\* without an error has written its output to the file and not to standard
\* output (which holds at most the "Output to" notice), whatever the other
\* options are, --leaf included.
C15_SavePathWritesFile ==
    (opt.save_path /\ pc = "done") =>
        /\ file # <<>>
        /\ \A k \in 1..Len(stdout) : stdout[k].kind = "output_to"

====
